---- MODULE Spec2Model ----
(***************************************************************************)
(* The interactive CHOMP driver of src/chomp-shell.cpp as a state machine. *)
(*                                                                         *)
(* The driver owns the persistent state (start qs, goal qe, trajectory xi, *)
(* obstacle matrix obs, the UI mode, the grab state, the rendered robots)  *)
(* and calls chomp::run_chomp once in main and once per accepted idle      *)
(* tick.  chomp::run_chomp (chomp.hpp) and gfx::main (gfx.hpp) are not     *)
(* part of the source file; they are modelled from the specification       *)
(* (sections 4.4, 5 and 6).                                                *)
(*                                                                         *)
(* Coordinates are doubles in the program.  The model's coordinates are    *)
(* integers, and a sum or difference the program computes is rounded as    *)
(* IEEE 754 rounds it (to nearest, ties to even), to a significand of      *)
(* Precision bits where a double has 53: integers below 2^Precision are    *)
(* exact, as the literals of main and the near pointer positions are, and  *)
(* the far pointer position brings sums that are not.                      *)
(***************************************************************************)
EXTENDS Integers, Sequences, FiniteSets

\* ------------------------------------------------------------------------
\* Program constants (chomp-shell.cpp:67-69)

cdim == 2

nq == 20

obs_dim == 3

\* ------------------------------------------------------------------------
\* Bounds of the model

\* right-button releases stop adding obstacles at this many columns
MaxObs == 3

\* the optimizer's result is one of MaxBend+1 trajectories
MaxBend == 1

\* at most this many mouse events are delivered in one run
MaxMouse == 4

\* significant bits of the model's doubles
Precision == 5

\* pointer positions the mouse callback is called with: three near the
\* initial obstacles and one far away, where sums with an odd offset round
Pointers == { <<3, 0>>, <<1, 0>>, <<1, 2>>, <<40, 0>> }

\* gfx flag words delivered to cb_mouse: one event kind and one button
FlagSets == { {k, b} : k \in {"PRESS", "DRAG", "RELEASE"}, b \in {"B1", "B3"} }

\* values an uninitialized Eigen vector of three doubles may hold
Garbage == { <<0, 0, 0>>, <<9, -9, 9>> }

VARIABLES
  pc,           \* position of the one thread of control
  qs,           \* Vector qs: start configuration
  qe,           \* Vector qe: goal configuration
  xi,           \* Vector xi: the flat trajectory
  obs,          \* Matrix obs: sequence of columns <<x, y, R>>
  state,        \* enum { PAUSE, STEP, RUN } state
  grabbed,      \* size_t grabbed; -1 stands for size_t(-1)
  grab_offset,  \* Vector grab_offset
  rstart,       \* Robot rstart: its position_
  rend,         \* Robot rend: its position_
  robots,       \* vector<Robot> robots: the position_ of each
  view,         \* the bounds last handed to gfx::set_view, <<>> before any
  last,         \* history: the last step taken and the mode it found
  invoked,      \* history: run_chomp invocations since the last callback began
  qs_writes,    \* history: number of assignments to qs
  qe_writes,    \* history: number of assignments to qe
  mouse_n       \* history: number of mouse events delivered

vars == << pc, qs, qe, xi, obs, state, grabbed, grab_offset, rstart, rend,
           robots, view, last, invoked, qs_writes, qe_writes, mouse_n >>

\* the variables that are the driver's own state
driver == << qs, qe, xi, obs, state, grabbed, grab_offset, rstart, rend, robots >>

\* ------------------------------------------------------------------------
\* Helpers

\* xi.block(ii * cdim, 0, cdim, 1), ii counted from 0
Waypoint(x, ii) == SubSeq(x, ii * cdim + 1, (ii + 1) * cdim)

\* the spacing of the model's doubles at magnitude a >= 0
RECURSIVE Ulp(_)
Ulp(a) == IF a < 2 ^ Precision THEN 1 ELSE 2 * Ulp(a \div 2)

\* the double nearest to x, ties to the even significand: the result of a
\* double addition or subtraction whose exact value is x
fl(x) ==
  LET a == IF x < 0 THEN -x ELSE x
      u == Ulp(a)
      q == a \div u
      r == a % u
      m == IF 2 * r > u \/ (2 * r = u /\ q % 2 = 1) THEN (q + 1) * u ELSE q * u
  IN  IF x < 0 THEN -m ELSE m

\* the step the history variable records
Did(op) == [op |-> op, mode |-> state]

\* ------------------------------------------------------------------------
\* add_obs (chomp-shell.cpp:75-80): conservativeResize keeps the existing
\* columns and adds one; the new last column is set to (px, py, radius).

\* variant: the resize is left out, the last column is overwritten
add_obs_overwrite(o, px, py, radius) ==
  IF o = <<>> THEN <<<<px, py, radius>>>>
  ELSE [o EXCEPT ![Len(o)] = <<px, py, radius>>]

\* variant: the new column is put first and the existing ones shift by one
add_obs_prepend(o, px, py, radius) == << <<px, py, radius>> >> \o o

add_obs(o, px, py, radius) == Append(o, <<px, py, radius>>)

\* ------------------------------------------------------------------------
\* update_robots (chomp-shell.cpp:140-151), the values it assigns

robots_of(x) == [ii \in 1..nq |-> Waypoint(x, ii - 1)]

update_robots ==
  /\ rstart' = qs
  /\ rend' = qe
  /\ robots' = robots_of(xi')

\* ------------------------------------------------------------------------
\* chomp::run_chomp(qs, qe, xi, obs), modelled from the specification.
\* It never writes start, goal or the obstacle set; it writes the
\* trajectory.  The numbers of the descent step are not modelled: the
\* result is one of a bounded family of trajectories of the right length,
\* waypoint i lying near the straight line from start to goal.

Trajectory(s, g, bend) ==
  [k \in 1..(nq * cdim) |->
     LET i == ((k - 1) \div cdim) + 1
         d == ((k - 1) % cdim) + 1
     IN  s[d] + (((g[d] - s[d]) * i) \div (nq + 1)) + (IF d = cdim THEN bend ELSE 0)]

Trajectories(s, g) == { Trajectory(s, g, b) : b \in 0..MaxBend }

DimensionsOk(s, g, x) ==
  /\ Len(s) = cdim
  /\ Len(g) = cdim
  /\ Len(x) = nq * cdim

\* The outcomes of one call.  With consistent dimensions the call returns
\* with the trajectory replaced.  With inconsistent dimensions the
\* specification has the call fail with DimensionError; main's own next
\* statement (update_robots reads nq * cdim entries of xi) presumes that
\* the call returned a full-length trajectory, so both outcomes are kept.
run_chomp(s, g, x, o) ==
  IF DimensionsOk(s, g, x)
  THEN { [err |-> FALSE, xi |-> t] : t \in Trajectories(s, g) }
  ELSE { [err |-> TRUE, xi |-> x] }
       \cup (IF Len(s) = cdim /\ Len(g) = cdim
             THEN { [err |-> FALSE, xi |-> t] : t \in Trajectories(s, g) }
             ELSE {})

\* control is inside run_chomp
InChomp == pc \in {"main_chomp", "idle_chomp"}

\* ------------------------------------------------------------------------
\* Initial state: the globals as constructed before main runs

Init ==
  /\ pc = "L308"
  /\ qs = <<>>
  /\ qe = <<>>
  /\ xi = <<>>
  /\ obs = <<>>
  /\ state = "PAUSE"
  /\ grabbed = -1
  /\ grab_offset \in Garbage
  /\ rstart = <<0, 0>>
  /\ rend = <<0, 0>>
  /\ robots = <<>>
  /\ view = <<>>
  /\ last = [op |-> "start", mode |-> "PAUSE"]
  /\ invoked = 0
  /\ qs_writes = 0
  /\ qe_writes = 0
  /\ mouse_n = 0

\* ------------------------------------------------------------------------
\* main (chomp-shell.cpp:295-320), statement by statement

main_qs ==
  /\ pc = "L308"
  /\ qs' = <<-5, -5>>
  /\ qs_writes' = qs_writes + 1
  /\ pc' = "L310"
  /\ last' = Did("main")
  /\ UNCHANGED << qe, xi, obs, state, grabbed, grab_offset, rstart, rend,
                  robots, view, invoked, qe_writes, mouse_n >>

\* variant: line 311 writes qs where qe is meant
main_qe_typo ==
  /\ pc = "L310"
  /\ qe' = <<0, 0>>
  /\ qs' = <<7, 7>>
  /\ qs_writes' = qs_writes + 1
  /\ pc' = "L312"
  /\ last' = Did("main")
  /\ UNCHANGED << xi, obs, state, grabbed, grab_offset, rstart, rend,
                  robots, view, invoked, qe_writes, mouse_n >>

main_qe ==
  /\ pc = "L310"
  /\ qe' = <<7, 7>>
  /\ qe_writes' = qe_writes + 1
  /\ pc' = "L312"
  /\ last' = Did("main")
  /\ UNCHANGED << qs, xi, obs, state, grabbed, grab_offset, rstart, rend,
                  robots, view, invoked, qs_writes, mouse_n >>

main_add_obs1 ==
  /\ pc = "L312"
  /\ obs' = add_obs(obs, 3, 0, 2)
  /\ pc' = "L313"
  /\ last' = Did("add_obs")
  /\ UNCHANGED << qs, qe, xi, state, grabbed, grab_offset, rstart, rend,
                  robots, view, invoked, qs_writes, qe_writes, mouse_n >>

main_add_obs2 ==
  /\ pc = "L313"
  /\ obs' = add_obs(obs, 0, 3, 2)
  /\ pc' = "L316"
  /\ last' = Did("add_obs")
  /\ UNCHANGED << qs, qe, xi, state, grabbed, grab_offset, rstart, rend,
                  robots, view, invoked, qs_writes, qe_writes, mouse_n >>

\* line 316: control enters run_chomp
main_run_chomp ==
  /\ pc = "L316"
  /\ pc' = "main_chomp"
  /\ invoked' = invoked + 1
  /\ last' = Did("main")
  /\ UNCHANGED << driver, view, qs_writes, qe_writes, mouse_n >>

\* line 316: run_chomp returns, or fails and the process ends
main_chomp_done ==
  /\ pc = "main_chomp"
  /\ \E r \in run_chomp(qs, qe, xi, obs) :
       /\ xi' = r.xi
       /\ pc' = IF r.err THEN "abort" ELSE "L317"
  /\ last' = Did("main")
  /\ UNCHANGED << qs, qe, obs, state, grabbed, grab_offset, rstart, rend,
                  robots, view, invoked, qs_writes, qe_writes, mouse_n >>

main_update_robots ==
  /\ pc = "L317"
  /\ xi' = xi
  /\ update_robots
  /\ pc' = "L318"
  /\ last' = Did("main")
  /\ UNCHANGED << qs, qe, obs, state, grabbed, grab_offset,
                  view, invoked, qs_writes, qe_writes, mouse_n >>

\* line 318, then line 319 hands control to the event loop
main_pause ==
  /\ pc = "L318"
  /\ state' = "PAUSE"
  /\ pc' = "loop"
  /\ last' = Did("main")
  /\ UNCHANGED << qs, qe, xi, obs, grabbed, grab_offset, rstart, rend,
                  robots, view, invoked, qs_writes, qe_writes, mouse_n >>

\* ------------------------------------------------------------------------
\* gfx::main (line 319), modelled from the specification (section 5): one
\* thread delivers the callbacks one at a time, each running to its end
\* before the next is delivered.

\* variant: callbacks are also delivered while cb_idle is inside run_chomp
Dispatch_reentrant == pc \in {"loop", "idle_chomp"}

Dispatch == pc = "loop"

\* ------------------------------------------------------------------------
\* cb_step (chomp-shell.cpp:157-160).  The add_button call that registers it
\* is inside the comment of lines 297-306; the handler is kept as an event
\* the driver may receive.

cb_step ==
  /\ Dispatch
  /\ state' = "STEP"
  /\ last' = Did("step")
  /\ invoked' = 0
  /\ UNCHANGED << pc, qs, qe, xi, obs, grabbed, grab_offset, rstart, rend,
                  robots, view, qs_writes, qe_writes, mouse_n >>

\* ------------------------------------------------------------------------
\* cb_idle (chomp-shell.cpp:184-194): line 187 returns when paused,
\* otherwise line 191 enters run_chomp

\* variant: the test of line 187 is left out
cb_idle_always ==
  /\ Dispatch
  /\ last' = Did("idle")
  /\ invoked' = 1
  /\ pc' = "idle_chomp"
  /\ UNCHANGED << driver, view, qs_writes, qe_writes, mouse_n >>

cb_idle ==
  /\ Dispatch
  /\ last' = Did("idle")
  /\ IF state = "PAUSE"
     THEN /\ invoked' = 0
          /\ pc' = pc
     ELSE /\ invoked' = 1
          /\ pc' = "idle_chomp"
  /\ UNCHANGED << driver, view, qs_writes, qe_writes, mouse_n >>

\* variant: line 192 is left out, the robots are not updated
cb_idle_done_stale ==
  /\ pc = "idle_chomp"
  /\ \E r \in run_chomp(qs, qe, xi, obs) :
       /\ xi' = r.xi
       /\ pc' = IF r.err THEN "abort" ELSE "loop"
  /\ UNCHANGED << qs, qe, obs, state, grabbed, grab_offset, rstart, rend,
                  robots, view, last, invoked, qs_writes, qe_writes, mouse_n >>

\* line 191: run_chomp returns (or fails and the process ends), then line
\* 192 update_robots, then the callback returns to the event loop
cb_idle_done ==
  /\ pc = "idle_chomp"
  /\ \E r \in run_chomp(qs, qe, xi, obs) :
       /\ xi' = r.xi
       /\ IF r.err
          THEN /\ pc' = "abort"
               /\ UNCHANGED << rstart, rend, robots >>
          ELSE /\ pc' = "loop"
               /\ update_robots
  /\ UNCHANGED << qs, qe, obs, state, grabbed, grab_offset,
                  view, last, invoked, qs_writes, qe_writes, mouse_n >>

\* ------------------------------------------------------------------------
\* cb_draw (chomp-shell.cpp:197-258): bmin and bmax are copies of qs that
\* the loops widen over qe and every waypoint; the rest only draws.

\* lines 202-219 for coordinate ii (counted from 1) over the values seen
Coordinates(ii) ==
  { qs[ii], qe[ii] } \cup { xi[ii + cdim * jj] : jj \in 0..(nq - 1) }

bmin(ii) == CHOOSE m \in Coordinates(ii) : \A c \in Coordinates(ii) : m <= c

bmax(ii) == CHOOSE m \in Coordinates(ii) : \A c \in Coordinates(ii) : m >= c

\* variant: bmax is declared a reference to qs (Vector & bmax (qs))
cb_draw_alias ==
  /\ Dispatch
  /\ view' = << bmin(1) - 2, bmin(2) - 2, bmax(1) + 2, bmax(2) + 2 >>
  /\ qs' = << bmax(1), bmax(2) >>
  /\ last' = Did("draw")
  /\ invoked' = 0
  /\ UNCHANGED << pc, qe, xi, obs, state, grabbed, grab_offset, rstart, rend,
                  robots, qs_writes, qe_writes, mouse_n >>

\* variant: the assignment of line 206 is reversed (qe[ii] = bmin[ii])
\* and its test with it
cb_draw_reversed ==
  /\ Dispatch
  /\ view' = << bmin(1) - 2, bmin(2) - 2, bmax(1) + 2, bmax(2) + 2 >>
  /\ qe' = [ii \in 1..cdim |-> IF qe[ii] > qs[ii] THEN qs[ii] ELSE qe[ii]]
  /\ last' = Did("draw")
  /\ invoked' = 0
  /\ UNCHANGED << pc, qs, xi, obs, state, grabbed, grab_offset, rstart, rend,
                  robots, qs_writes, qe_writes, mouse_n >>

cb_draw ==
  /\ Dispatch
  /\ last' = Did("draw")
  /\ invoked' = 0
  /\ UNCHANGED << pc, driver, qs_writes, qe_writes, mouse_n >>
  /\ view' = << bmin(1) - 2, bmin(2) - 2, bmax(1) + 2, bmax(2) + 2 >>

\* ------------------------------------------------------------------------
\* cb_mouse (chomp-shell.cpp:261-292)

\* lines 270-273: the offset of column ii (counted from 1) from the pointer,
\* and the test offset.norm() <= obs(2,ii).  Rounding is monotone and the
\* radius is a small integer, so the rounded norm is within the radius
\* exactly when the sum of the squares is within its square.
Offset(o, ii, px, py) == << fl(o[ii][1] - px), fl(o[ii][2] - py) >>

Hit(o, ii, px, py) ==
  LET off == Offset(o, ii, px, py)
  IN  /\ o[ii][3] >= 0
      /\ off[1] * off[1] + off[2] * off[2] <= o[ii][3] * o[ii][3]

\* lines 263-266: right-button release adds an obstacle
mouse_add(px, py) ==
  /\ obs' = add_obs(obs, px, py, 2)
  /\ UNCHANGED << state, grabbed, grab_offset >>

\* variant: the index is stored counted from 1 (grabbed = ii + 1)
mouse_press_plus1(px, py) ==
  LET hits == { ii \in 1..Len(obs) : Hit(obs, ii, px, py) }
  IN  IF hits = {}
      THEN UNCHANGED << obs, state, grabbed, grab_offset >>
      ELSE LET ii == CHOOSE h \in hits : \A k \in hits : h <= k
           IN  /\ grab_offset' = Offset(obs, ii, px, py)
               /\ grabbed' = ii
               /\ state' = "RUN"
               /\ obs' = obs

\* variant: the break of line 277 is left out, the last column hit wins
mouse_press_nobreak(px, py) ==
  LET hits == { ii \in 1..Len(obs) : Hit(obs, ii, px, py) }
  IN  IF hits = {}
      THEN UNCHANGED << obs, state, grabbed, grab_offset >>
      ELSE LET ii == CHOOSE h \in hits : \A k \in hits : h >= k
           IN  /\ grab_offset' = Offset(obs, ii, px, py)
               /\ grabbed' = ii - 1
               /\ state' = "RUN"
               /\ obs' = obs

\* lines 268-280: the first column the pointer hits is grabbed
mouse_press(px, py) ==
  LET hits == { ii \in 1..Len(obs) : Hit(obs, ii, px, py) }
  IN  IF hits = {}
      THEN UNCHANGED << obs, state, grabbed, grab_offset >>
      ELSE LET ii == CHOOSE h \in hits : \A k \in hits : h <= k
           IN  /\ grab_offset' = Offset(obs, ii, px, py)
               /\ grabbed' = ii - 1
               /\ state' = "RUN"
               /\ obs' = obs

\* variant: line 284 writes row 2 (the radius) where row 1 is meant
mouse_drag_row(px, py) ==
  /\ IF grabbed # -1
     THEN obs' = [obs EXCEPT ![grabbed + 1] =
                    << fl(px + grab_offset[1]), @[2], fl(py + grab_offset[2]) >>]
     ELSE obs' = obs
  /\ UNCHANGED << state, grabbed, grab_offset >>

\* variant: a drag also restarts the optimizer
mouse_drag_runs(px, py) ==
  /\ IF grabbed # -1
     THEN obs' = [obs EXCEPT ![grabbed + 1] =
                    << fl(px + grab_offset[1]), fl(py + grab_offset[2]), @[3] >>]
     ELSE obs' = obs
  /\ state' = "RUN"
  /\ UNCHANGED << grabbed, grab_offset >>

\* variant: line 284 adds component 0 of the offset where 1 is meant
mouse_drag_offset0(px, py) ==
  /\ IF grabbed # -1
     THEN obs' = [obs EXCEPT ![grabbed + 1] =
                    << fl(px + grab_offset[1]), fl(py + grab_offset[1]), @[3] >>]
     ELSE obs' = obs
  /\ UNCHANGED << state, grabbed, grab_offset >>

\* lines 281-286: the grabbed column follows the pointer
mouse_drag(px, py) ==
  /\ IF grabbed # -1
     THEN obs' = [obs EXCEPT ![grabbed + 1] =
                    << fl(px + grab_offset[1]), fl(py + grab_offset[2]), @[3] >>]
     ELSE obs' = obs
  /\ UNCHANGED << state, grabbed, grab_offset >>

\* lines 287-290
mouse_release ==
  /\ grabbed' = -1
  /\ state' = "PAUSE"
  /\ UNCHANGED << obs, grab_offset >>

cb_mouse(px, py, flags) ==
  /\ Dispatch
  /\ mouse_n < MaxMouse
  /\ mouse_n' = mouse_n + 1
  /\ IF "RELEASE" \in flags /\ "B3" \in flags
     THEN /\ Len(obs) < MaxObs
          /\ mouse_add(px, py)
          /\ last' = Did("add_obs")
     ELSE IF "PRESS" \in flags
     THEN /\ mouse_press(px, py)
          /\ last' = Did("press")
     ELSE IF "DRAG" \in flags
     THEN /\ mouse_drag(px, py)
          /\ last' = Did("drag")
     ELSE IF "RELEASE" \in flags
     THEN /\ mouse_release
          /\ last' = Did("release")
     ELSE /\ UNCHANGED << obs, state, grabbed, grab_offset >>
          /\ last' = Did("mouse")
  /\ invoked' = 0
  /\ UNCHANGED << pc, qs, qe, xi, rstart, rend, robots, view,
                  qs_writes, qe_writes >>

\* ------------------------------------------------------------------------

Next ==
  \/ main_qs
  \/ main_qe
  \/ main_add_obs1
  \/ main_add_obs2
  \/ main_run_chomp
  \/ main_chomp_done
  \/ main_update_robots
  \/ main_pause
  \/ cb_step
  \/ cb_idle
  \/ cb_idle_done
  \/ cb_draw
  \/ \E p \in Pointers, flags \in FlagSets : cb_mouse(p[1], p[2], flags)

Spec == Init /\ [][Next]_vars

\* ========================================================================
\* Properties

\* C1: once main has assigned them, the start configuration qs is (-5,-5)
\* and the goal configuration qe is (7,7) in every state, whatever driver
\* events (run_chomp calls, idle ticks, mouse events, obstacle additions,
\* step requests, draws) have happened.
C1_EndpointsFixed ==
  /\ pc # "L308" => qs = <<-5, -5>>
  /\ pc \notin {"L308", "L310"} => qe = <<7, 7>>

\* a state after a draw, an obstacle addition, further mouse events, a
\* step request and an idle tick that ran the optimizer
C1_Witness ==
  /\ pc = "loop"
  /\ view # <<>>
  /\ Len(obs) = 3
  /\ mouse_n >= 3
  /\ state = "STEP"
  /\ last.op = "idle"
  /\ invoked = 1
  /\ xi = Trajectory(qs, qe, 1)

\* C2: whenever control is inside run_chomp (the call of main and every
\* call of cb_idle), the trajectory passed has length nq*cdim and start
\* and goal have length cdim.
C2_DimensionsAtCall == InChomp => DimensionsOk(qs, qe, xi)

\* C3: no step changes the radius of an existing obstacle or removes it,
\* and every obstacle a step creates has the radius passed to add_obs (2.0
\* at each of the three call sites, lines 265, 312 and 313).
C3_RadiusFixed ==
  [][ /\ Len(obs') >= Len(obs)
      /\ \A i \in 1..Len(obs') :
           obs'[i][3] = (IF i <= Len(obs) THEN obs[i][3] ELSE 2) ]_vars

\* an obstacle created by the mouse was grabbed and dragged away from
\* where it was created, and the drag has ended
C3_Witness ==
  /\ Len(obs) = 3
  /\ last.op = "release"
  /\ grabbed = -1
  /\ obs[1] # <<3, 0, 2>>
  /\ obs[1][3] = 2

\* what add_obs(px, py, radius) leaves and what it changes
AddFrame(px, py, radius) ==
  /\ Len(obs') = Len(obs) + 1
  /\ obs'[Len(obs')] = <<px, py, radius>>
  /\ \A i \in 1..Len(obs) : obs'[i] = obs[i]
  /\ UNCHANGED << xi, qs, qe, state, grabbed >>

\* C4: every step that calls add_obs (the two calls of main and every
\* right-button release) appends exactly one obstacle, the one passed,
\* keeps every existing obstacle at its index, and leaves trajectory,
\* start, goal, mode and grabbed index unchanged; the first call of main
\* finds the obstacle set empty.
C4_AddObsFrame ==
  [][ /\ main_add_obs1 => (obs = <<>> /\ AddFrame(3, 0, 2))
      /\ main_add_obs2 => AddFrame(0, 3, 2)
      /\ \A p \in Pointers :
           cb_mouse(p[1], p[2], {"RELEASE", "B3"}) => AddFrame(p[1], p[2], 2) ]_vars

\* an obstacle was added by a right-button release while obstacle 0 was
\* grabbed and the mode was RUN
C4_Witness ==
  /\ last.op = "add_obs"
  /\ pc = "loop"
  /\ Len(obs) = 3
  /\ grabbed = 0
  /\ state = "RUN"

\* what a drag event leaves
DragFrame ==
  /\ Len(obs') = Len(obs)
  /\ \A i \in 1..Len(obs) :
       /\ i # grabbed + 1 => obs'[i] = obs[i]
       /\ obs'[i][3] = obs[i][3]
  /\ UNCHANGED << xi, qs, qe, state >>
  /\ grabbed = -1 => UNCHANGED driver

\* C5: a drag event changes at most the center of the grabbed obstacle:
\* the other obstacles, the count, every radius, the trajectory, start,
\* goal and the mode are unchanged, and with nothing grabbed the driver's
\* state is unchanged altogether.
C5_DragFrame ==
  [][ \A p \in Pointers, b \in {"B1", "B3"} :
        cb_mouse(p[1], p[2], {"DRAG", b}) => DragFrame ]_vars

\* obstacle 1 is grabbed and a drag has moved it; obstacle 0 is where it
\* was created
C5_Witness ==
  /\ last.op = "drag"
  /\ grabbed = 1
  /\ obs[2] # <<0, 3, 2>>
  /\ obs[1] = <<3, 0, 2>>

\* C6: an idle tick that finds the mode other than PAUSE invokes run_chomp
\* exactly once (from its delivery until the callback has returned), and an
\* idle tick that finds the mode PAUSE invokes it zero times and leaves the
\* trajectory, the obstacle set and the rendered robots unchanged.
C6_OncePerAcceptedTick ==
  /\ [](last.op = "idle" => invoked = (IF last.mode = "PAUSE" THEN 0 ELSE 1))
  /\ [][ cb_idle /\ state = "PAUSE" =>
           pc' = "loop" /\ UNCHANGED << xi, obs, robots, rstart, rend >> ]_vars

\* an idle tick that found the mode RUN has returned to the event loop
C6_Witness ==
  /\ last.op = "idle"
  /\ last.mode = "RUN"
  /\ pc = "loop"
  /\ invoked = 1

\* C7: while control is inside run_chomp no step changes the obstacle set
\* and no mouse callback is delivered.
C7_Serialized ==
  [][ InChomp => (obs' = obs /\ mouse_n' = mouse_n) ]_vars

\* cb_idle is inside run_chomp while an obstacle is grabbed, that is in the
\* middle of a drag
C7_Witness ==
  /\ pc = "idle_chomp"
  /\ grabbed # -1
  /\ last.op = "idle"

\* C8: the first invocation of run_chomp is the one of main: it finds
\* start (-5,-5), goal (7,7) and the obstacles (3,0,2), (0,3,2) in that
\* order, no callback has been delivered before it, no callback is
\* delivered before main has reached the event loop, and start and goal
\* are each assigned exactly once.
C8_InitBeforeOptimize ==
  /\ pc \in {"L308", "L310", "L312", "L313", "L316"} => invoked = 0
  /\ pc = "main_chomp" =>
       /\ invoked = 1
       /\ qs = <<-5, -5>>
       /\ qe = <<7, 7>>
       /\ obs = << <<3, 0, 2>>, <<0, 3, 2>> >>
  /\ pc \notin {"loop", "idle_chomp", "abort"} =>
       /\ last.op \in {"start", "main", "add_obs"}
       /\ mouse_n = 0
       /\ view = <<>>
  /\ qs_writes = (IF pc = "L308" THEN 0 ELSE 1)
  /\ qe_writes = (IF pc \in {"L308", "L310"} THEN 0 ELSE 1)

\* control is inside the first invocation of run_chomp
C8_Witness ==
  /\ pc = "main_chomp"
  /\ invoked = 1
  /\ qs_writes = 1
  /\ qe_writes = 1
  /\ Len(obs) = 2

\* C9: only a return of run_chomp changes the trajectory (no draw, mouse
\* event, obstacle addition or step request does), and a draw changes
\* nothing of the driver's state.
C9_OnlyOptimizerWrites ==
  /\ [][ xi' # xi => InChomp ]_vars
  /\ [][ cb_draw => UNCHANGED driver ]_vars

\* a draw has just happened, after mouse events and an optimizer run that
\* left a trajectory other than the first
C9_Witness ==
  /\ last.op = "draw"
  /\ view # <<>>
  /\ mouse_n > 0
  /\ xi = Trajectory(qs, qe, 1)
  /\ grabbed # -1

\* C11: single-step mode performs a single step: once an idle tick that
\* found the mode STEP has run the optimizer and returned to the event
\* loop, the mode is PAUSE (so that later idle ticks do not run it).
C11_SingleStep ==
  (pc = "loop" /\ last.op = "idle" /\ last.mode = "STEP") => state = "PAUSE"

\* C12: obstacles are never destroyed: no step lowers the number of
\* obstacles, a step that raises it is an add_obs call (of main or of a
\* right-button release) and raises it by exactly one, and every existing
\* obstacle stays at its index: column i is unchanged by every step, except
\* that a drag may move the grabbed column.
C12_NeverDestroyed ==
  [][ /\ Len(obs') >= Len(obs)
      /\ Len(obs') # Len(obs) =>
           (Len(obs') = Len(obs) + 1 /\ last'.op = "add_obs")
      /\ \A i \in 1..Len(obs) :
           \/ obs'[i] = obs[i]
           \/ (last'.op = "drag" /\ i = grabbed + 1) ]_vars

\* obstacle 1 was dragged away and an obstacle was added afterwards: the
\* dragged one is still column 2 and obstacle 0 still column 1
C12_Witness ==
  /\ last.op = "add_obs"
  /\ Len(obs) = 3
  /\ obs[1] = <<3, 0, 2>>
  /\ obs[2] # <<0, 3, 2>>
  /\ obs[2][3] = 2
  /\ grabbed = 1

\* C13: every mouse-release event ends the drag in progress: when a
\* callback for an event whose flags include MOUSE_RELEASE has returned
\* (a release of any button; a right-button release is the one that adds an
\* obstacle), no obstacle is grabbed and the mode is PAUSE.
C13_ReleaseEndsDrag ==
  (pc = "loop" /\ last.op \in {"release", "add_obs"}) =>
    (grabbed = -1 /\ state = "PAUSE")

\* C14: the grabbed index is always valid: in every state grabbed is -1
\* (nothing grabbed) or an index from 0 and strictly below the number of
\* obstacles.
C14_GrabbedValid ==
  grabbed = -1 \/ (0 <= grabbed /\ grabbed < Len(obs))

\* the last of three obstacles is grabbed and a drag has written its column
C14_Witness ==
  /\ last.op = "drag"
  /\ Len(obs) = 3
  /\ grabbed = 2
  /\ obs[3][3] = 2

\* the obstacles (counted from 1) whose closed disk contains the point p
DisksAt(p) ==
  { i \in 1..Len(obs) :
      /\ obs[i][3] >= 0
      /\ (obs[i][1] - p[1]) * (obs[i][1] - p[1])
           + (obs[i][2] - p[2]) * (obs[i][2] - p[2]) <= obs[i][3] * obs[i][3] }

\* what a press at p does
PressEffect(p) ==
  IF DisksAt(p) = {}
  THEN UNCHANGED << state, grabbed, grab_offset >>
  ELSE \E i \in DisksAt(p) :
         /\ \A k \in DisksAt(p) : i <= k
         /\ grabbed' = i - 1
         /\ grab_offset' = << fl(obs[i][1] - p[1]), fl(obs[i][2] - p[2]) >>
         /\ state' = "RUN"

\* C15: a press at p (with either button, not a right-button release)
\* grabs the lowest-index obstacle whose closed disk contains p, records
\* the offset center - p as the program computes it and sets the mode to
\* RUN; a press inside no disk leaves mode, grabbed index and offset
\* unchanged.
C15_PressGrabsLowest ==
  [][ last'.op = "press" =>
        \A p \in Pointers, b \in {"B1", "B3"} :
          cb_mouse(p[1], p[2], {"PRESS", b}) => PressEffect(p) ]_vars

\* a press at (1,0), on the edge of obstacle 0's disk and at the center of
\* obstacle 2 added there, has grabbed obstacle 0 with offset (2,0)
C15_Witness ==
  /\ last.op = "press"
  /\ Len(obs) = 3
  /\ obs[1] = <<3, 0, 2>>
  /\ obs[3] = <<1, 0, 2>>
  /\ grabbed = 0
  /\ grab_offset = <<2, 0>>
  /\ state = "RUN"

\* C16 as stated: after every drag event at pointer p' while an obstacle is
\* grabbed, the center of the grabbed obstacle minus p' equals the recorded
\* offset.
C16_OffsetPreserved ==
  [][ \A p \in Pointers, b \in {"B1", "B3"} :
        (cb_mouse(p[1], p[2], {"DRAG", b}) /\ grabbed # -1) =>
          /\ obs'[grabbed + 1][1] - p[1] = grab_offset[1]
          /\ obs'[grabbed + 1][2] - p[2] = grab_offset[2] ]_vars

\* x is a double: computing it rounds nothing
Exact(x) == fl(x) = x

\* C16 as amended: a drag event at p' while an obstacle is grabbed sets its
\* center to the rounded sum p' + offset and leaves the offset and the
\* grabbed index as they are; where that sum is exact the center minus p'
\* equals the offset; and the offset and a grabbed index change only at a
\* press, so the offset is the one recorded at the press that grabbed the
\* obstacle.
C16_OffsetPreservedWhenExact ==
  /\ [][ \A p \in Pointers, b \in {"B1", "B3"} :
           (cb_mouse(p[1], p[2], {"DRAG", b}) /\ grabbed # -1) =>
             /\ grab_offset' = grab_offset
             /\ grabbed' = grabbed
             /\ \A d \in 1..cdim :
                  /\ obs'[grabbed + 1][d] = fl(p[d] + grab_offset[d])
                  /\ Exact(p[d] + grab_offset[d]) =>
                       obs'[grabbed + 1][d] - p[d] = grab_offset[d] ]_vars
  /\ [][ (grab_offset' # grab_offset \/ (grabbed' # grabbed /\ grabbed' # -1))
           => last'.op = "press" ]_vars

\* obstacle 1, grabbed at (1,2) with offset (-1,1), has been dragged to the
\* near pointer (3,0) and sits at (2,1): its center minus the pointer is
\* the offset
C16_Witness ==
  /\ last.op = "drag"
  /\ grabbed = 1
  /\ grab_offset = <<-1, 1>>
  /\ obs[2] = <<2, 1, 2>>

\* C17: the rendered robots mirror the trajectory: whenever control is in
\* the event loop between callbacks (so at every draw) there are exactly nq
\* waypoint robots, robot i is at waypoint i of xi (entries i*cdim up to
\* (i+1)*cdim, i counted from 0), the start robot is at qs and the end
\* robot at qe; and while a run_chomp invocation has not been followed by
\* update_robots no callback can be delivered.
C17_RobotsMirror ==
  /\ pc = "loop" =>
       /\ Len(robots) = nq
       /\ \A i \in 0..(nq - 1) :
            robots[i + 1] = << xi[i * cdim + 1], xi[i * cdim + 2] >>
       /\ rstart = qs
       /\ rend = qe
  /\ pc \in {"main_chomp", "L317", "idle_chomp"} => ~ENABLED cb_draw

\* an idle tick has run the optimizer after a draw, the trajectory is the
\* bent one and the robots show it
C17_Witness ==
  /\ pc = "loop"
  /\ last.op = "idle"
  /\ invoked = 1
  /\ view # <<>>
  /\ xi = Trajectory(qs, qe, 1)
  /\ robots[1] = <<-5, -4>>
  /\ robots[nq] = <<6, 7>>

====
